---- MODULE Spec2Model ----
(***************************************************************************)
(* Model of the 1PPS tracking core:                                        *)
(*   - LinearClockApproximation (src/PPSutilities.py): the incremental     *)
(*     trailing-window clock fit;                                          *)
(*   - fast_process (src/PPS/fast_processing.py) driven by                 *)
(*     PpsTracking.process, and the snapshot reader                        *)
(*     PpsTracking.getDataObject (src/PPS/measurement.py).                 *)
(* Python's // and >> 1 are floor divisions; TLC's \div floors as well.    *)
(***************************************************************************)
EXTENDS Integers, Sequences, FiniteSets, TLC

VARIABLES
    clk,            \* the LinearClockApproximation object
    tick_log,       \* history: the ticks passed to new_tag since the last _reset
    last_call,      \* history: the newest call / tag the clock object handled
    emitted,        \* history: the rescaled tags process_tags has written
    reference,      \* PpsTracking.__reference[0] (reference_dtype)
    channels,       \* PpsTracking.__channels (channel_dtype), one per signal channel
    stored_tags,    \* PpsTracking.__stored_tags: the pending ring of each channel
    histograms,     \* PpsTracking.__histograms, row-major as it lies in memory
    data,           \* PpsTracking.__data: per channel and slot the (mean, stddev) cell
    data_reftime,   \* PpsTracking.__data_reftime
    reftime_cycle,  \* history: the cycle whose close wrote each data_reftime slot
    messages,       \* the list fast_process is building / has returned
    pc,             \* position of the thread running process()
    ci,             \* loop variable of the cycle-close loop over the channels
    now,            \* time of the newest tag delivered (tags are time-ordered)
    budget,         \* number of tags the device still delivers in this run
    fault,          \* a write landed outside the histograms array
    nrefs,          \* history: number of reference tags fast_process has handled
    fed,            \* history: which channels had a tag since the last reference
                    \* tag, and whether every reference interval of the running
                    \* cycle had one on every channel
    drain_log,      \* history: the drain made by the newest step, if it made one,
                    \* and the channel of the normal tag the step handled
    raw_tags,       \* history: the raw time of the tag behind each stored_tags slot
    raw_sum,        \* history: per channel, the sum of (raw tag time - reference
                    \* time it was matched against) over the samples recorded
                    \* since the channel's last cycle close
    storage_count,  \* PpsTracking.__storage_count
    utc_timestamps, \* PpsTracking.__utc_timestamps: the device time (end_time) of
                    \* each entry; the wall-clock half of the pairs is not modelled
    rows,           \* history: the rows _store_timetags has written to the data file
    raised,         \* the exception that ended the newest process() call, "" if none
    current_data,   \* PpsTracking.__current_data: the cached PpsData snapshot
    rpc,            \* position of the thread running getDataObject()
    gui,            \* the message log, its counter and the DisplayUpdater thread
    legacy          \* the PpsTracking object of PPStracking.py (the legacy tracker)

clockVars == <<clk, tick_log, last_call, emitted>>

storeVars == <<storage_count, utc_timestamps, rows, raised>>

rawVars == <<raw_tags, raw_sum>>

coreVars == <<reference, channels, stored_tags, histograms, data, data_reftime,
              reftime_cycle, messages, pc, ci, now, budget, fault, nrefs, fed, drain_log,
              storage_count, utc_timestamps, rows, raised, raw_tags, raw_sum>>

readerVars == <<current_data, rpc, gui, legacy>>

vars == <<clk, tick_log, last_call, emitted, reference, channels, stored_tags, histograms, data,
          data_reftime, reftime_cycle, messages, pc, ci, now, budget, fault,
          nrefs, fed, drain_log, storage_count, utc_timestamps, rows, raised,
          raw_tags, raw_sum, current_data, rpc, gui, legacy>>

----------------------------------------------------------------------------
(* Bounds of the clock model *)

\* number of new_tag / skip calls explored
MaxTicks == 5
\* largest deviation of a tick interval from the nominal period
MaxJitter == 1
\* largest first tick time
MaxFirstTick == 1
\* largest number of skipped ticks in one skip call
MaxSkip == 2

\* window lengths (max_length) and nominal period the object is built with
ClockLengths == {2, 3}
ClockPeriod == 4
\* the channel the clock object is built for, and a channel it rescales
ClockChannel == 7
RescaledChannel == 1
\* size of timestamp_storage / channel_storage (the program allocates 1000)
StorageSize == 3
\* number of tags and calls explored by the rescaler model
MaxRescaleTags == 4
\* largest time between a tag and the next tag of another channel
MaxGap == 2

----------------------------------------------------------------------------
(* LinearClockApproximation *)

\* x >> 1 on a Python / numba signed integer: arithmetic shift, i.e. floor(x/2)
Shr1(x) == x \div 2

\* _reset setting clock_time back to its start value as well
_reset_ClearsClockTime(c) ==
    [c EXCEPT !._denominator = 1,
              !.y_sum = 0,
              !.xy_sum = 0,
              !.last_tag = 0,
              !.position = 0,
              !.full = FALSE,
              !.slope = c.period,
              !._period_x_denominator = c.period,
              !.offset = 0,
              !._reset_done = TRUE,
              !.clock_time = -c.period]

\* _reset: the regression state of an empty window
_reset(c) ==
    [c EXCEPT !._denominator = 1,
              !.y_sum = 0,
              !.xy_sum = 0,
              !.last_tag = 0,
              !.position = 0,
              !.full = FALSE,
              !.slope = c.period,
              !._period_x_denominator = c.period,
              !.offset = 0,
              !._reset_done = TRUE]

\* __init__(length, period, channel)
ClockInit(length, period) ==
    _reset([max_length |-> length,
            period |-> period,
            tags |-> [i \in 1..length |-> 0],
            clock_time |-> -period,
            channel |-> ClockChannel,
            timestamp_storage |-> [i \in 1..StorageSize |-> 0],
            channel_storage |-> [i \in 1..StorageSize |-> 0],
            storage_start |-> 0,
            storage_end |-> 0,
            _clock_timestamps |-> <<0, 0, 0>>,
            _denominator |-> 0,
            y_sum |-> 0,
            xy_sum |-> 0,
            _y_sum_factor |-> 0,
            _period_x_denominator |-> 0,
            _step |-> 0,
            last_tag |-> 0,
            position |-> 0,
            full |-> FALSE,
            slope |-> 0,
            offset |-> 0,
            _reset_done |-> FALSE,
            raised |-> FALSE])

\* before any call: op is the call, n the number of calls so far, arg the
\* argument of skip, time / channel / type the tag handled, and for a clock
\* tag of process_tags what its drain removed from the queue and what
\* tags out of them it wrote, and what cycle_length it used
NoCall == [op |-> "none", n |-> 0, arg |-> 0, time |-> 0, channel |-> 0, type |-> 0,
           removed |-> <<>>, out |-> <<>>, cycle_length |-> 0]

\* skip without the reset
skip_NoReset(c, k) == [c EXCEPT !.clock_time = @ + k * c.period, !.raised = FALSE]

\* skip(number_of_skipped_tags)
skip(c, k) ==
    LET c1 == [c EXCEPT !.clock_time = @ + k * c.period, !.raised = FALSE]
    IN IF ~c._reset_done THEN _reset(c1) ELSE c1

\* the full-window branch of new_tag: xy_sum is updated before y_sum
FullXySum(c, step, front_to_end) ==
    c.xy_sum + (-c.y_sum + c.max_length * (Shr1(step * (c.max_length + 1)) - front_to_end))

FullYSum(c, step, front_to_end) ==
    c.y_sum + front_to_end - c.max_length * step

\* the filling branch of new_tag (position is the size of the valid buffer)
FillXySum(c, step) ==
    IF c.position # 0
    THEN c.xy_sum + (-c.y_sum + (step * ((c.position + 1) * c.position)) \div 2)
    ELSE c.xy_sum

FillYSum(c, step) ==
    IF c.position # 0 THEN c.y_sum - c.position * step ELSE c.y_sum

\* new_tag(tag).  The last statement divides by slope: with slope = 0 the
\* jitted integer division raises ZeroDivisionError after everything but the
\* newest _clock_timestamps entry has been updated (raised = TRUE).
new_tag(c, tag) ==
    LET step == tag - c.last_tag - c.period
        N    == c.max_length
        pos  == c.position
        c1   == [c EXCEPT !._reset_done = FALSE, !._step = step, !.last_tag = tag]
        c2   == IF c.full
                THEN LET fte   == tag - c.tags[pos + 1] - N * c.period
                         xy    == FullXySum(c, step, fte)
                         y     == FullYSum(c, step, fte)
                         ysf   == (y * (N - 1)) * 2
                         slope == c._period_x_denominator + 3 * ((xy * 4) + ysf)
                         off   == c.period * ((2 * N - 1) * ysf + 6 * (N - 1) * xy) - Shr1(slope)
                     IN [c1 EXCEPT !.xy_sum = xy, !.y_sum = y, !._y_sum_factor = ysf,
                                   !.slope = slope, !.offset = off]
                ELSE LET xy    == FillXySum(c, step)
                         y     == FillYSum(c, step)
                         den   == (pos + 1) * (pos * pos - 1)
                         pxd   == c.period * den
                         slope == pxd + 12 * xy + 6 * pos * y
                         off   == c.period * (2 * pos * (2 * pos + 1) * y + 6 * pos * xy) - Shr1(slope)
                     IN [c1 EXCEPT !.xy_sum = xy, !.y_sum = y, !._denominator = den,
                                   !._period_x_denominator = pxd,
                                   !.slope = slope, !.offset = off,
                                   !.full = (pos + 1 = N)]
        c3   == [c2 EXCEPT !.tags[pos + 1] = tag,
                           !.clock_time = @ + c.period,
                           !.position = (pos + 1) % N]
        ts   == c._clock_timestamps
    IN IF c3.slope = 0
       THEN [c3 EXCEPT !._clock_timestamps = <<ts[2], ts[3], ts[3]>>, !.raised = TRUE]
       ELSE [c3 EXCEPT !._clock_timestamps = <<ts[2], ts[3], tag - (c3.offset \div c3.slope)>>,
                       !.raised = FALSE]

----------------------------------------------------------------------------
(* Configuration and bounds of the correlator model *)

\* PpsTracking(channels = SignalChannels, reference_channel = RefChannel);
\* OtherChannel is a channel of the device that is not monitored
SignalChannels == <<1, 2>>
RefChannel == 3
OtherChannel == 4
NCh == Len(SignalChannels)

\* the period and n_average the measurement is built with
Periods == {2, 3}
NAverages == {1, 2}

\* capacity of each pending ring, stored_tags.shape[1] (the program allocates
\* 100; the ring logic is the same for every capacity)
TagsToStore == 3
\* the histograms have n_average + HistSlack columns (the program adds 10)
HistSlack == 0
\* capacity of the result ring, __max_timetags (the program starts with 300)
MaxTimetags == 2
\* tag times lie in 1..MaxTime
MaxTime == 4
\* number of tags delivered in a run, and in a run with the display thread
MaxTags == 4
MaxTagsReader == 3

----------------------------------------------------------------------------
(* State built by PpsTracking.__init__ *)

ReferenceInit(period, n_average) ==
    [channel |-> RefChannel, period |-> period, n_average |-> n_average,
     index |-> 0, count |-> 0, last |-> 0, data_index |-> 0, missed |-> 0]

ChannelInit(c) ==
    [channel |-> c, buffer_read_index |-> 0, buffer_write_index |-> 0,
     offset |-> -1, index |-> 0, missed |-> 0]

\* A (mean, stddev) cell of data[:, i, j].  The floats are kept as the exact
\* integers they are computed from: over the slice data_set of m samples with
\* sum and sumsq, and with n the divisor channels[i]["index"],
\*     mean   = sum / n + off
\*     stddev = sqrt((sumsq - 2 * (sum/n) * sum + m * (sum/n)^2) / n)
\* nan marks numpy.nan in both entries.  cycle is history: the value of
\* reference["count"] when the cell was written (-1: never written).
NaNCell(cyc) ==
    [nan |-> TRUE, sum |-> 0, sumsq |-> 0, m |-> 0, n |-> 0, off |-> 0, cycle |-> cyc]

HistWidth(ref) == ref.n_average + HistSlack

\* the cached snapshot before the first getDataObject call (None)
NoData == [valid |-> FALSE, count |-> 0, offset |-> 0, data |-> <<>>, reftime |-> <<>>,
           reftime_cycle |-> <<>>]

\* no drain was made by the newest step
NoDrain == [ran |-> FALSE, last |-> 0, channels |-> <<>>, tag |-> 0]

\* the messages appended in a run
MaxMessages == 4

GuiInit ==
    [messages |-> <<>>,          \* PpsTracking.__messages
     message_index |-> 0,        \* PpsTracking.__message_index
     wpc |-> "idle",             \* position of the thread inside _new_message
     last_message |-> 0,         \* DisplayUpdater.last_message
     upc |-> "check",            \* position of DisplayUpdater.run
     delivered |-> <<>>]         \* history: the arguments of add_message

\* the model's stand-in for the default of PpsTracking._max_timetags, and the
\* period argument of the legacy tracker
LegacyMaxTimetags == 2
LegacyPeriod == 2

\* a channel without a tag in a TimeTagGroup
NoTag == -1
\* PpsTracking._reference_tag is None
NoGroup == [index |-> -1, reference_tag |-> 0, channel_tags |-> <<>>]

\* the object after PPStracking.PpsTracking.__init__ (clock = None)
LegacyInit ==
    [_timetags |-> <<>>,
     _max_timetags |-> LegacyMaxTimetags,
     _timetag_index |-> 0,
     _reference_tag |-> NoGroup,
     _channel_tags |-> <<>>,
     _message_index |-> 1,       \* "New file opened" of _open_file (line 118)
     time |-> 0,                 \* history: the time of the newest tag
     rows |-> 0]                 \* history: the rows _store_timetag has written

CoreInit(period, n_average, tags) ==
    /\ reference = ReferenceInit(period, n_average)
    /\ channels = [i \in 1..NCh |-> ChannelInit(SignalChannels[i])]
    \* numpy.empty: a slot is never read before a push has written it
    /\ stored_tags = [i \in 1..NCh |-> [k \in 1..TagsToStore |-> 0]]
    /\ histograms = [k \in 1..(NCh * (n_average + HistSlack)) |-> 0]
    /\ data = [i \in 1..NCh |-> [j \in 1..MaxTimetags |-> NaNCell(-1)]]
    /\ data_reftime = [j \in 1..MaxTimetags |-> 0]
    /\ reftime_cycle = [j \in 1..MaxTimetags |-> -1]
    /\ messages = <<>>
    /\ pc = "idle"
    /\ ci = 0
    /\ now = 1
    /\ budget = tags
    /\ fault = FALSE
    /\ nrefs = 0
    /\ fed = [seen |-> [i \in 1..NCh |-> FALSE], ok |-> FALSE]
    /\ drain_log = NoDrain
    /\ storage_count = 0
    /\ utc_timestamps = <<>>
    /\ rows = <<>>
    /\ raised = ""
    /\ raw_tags = [i \in 1..NCh |-> [k \in 1..TagsToStore |-> 0]]
    /\ raw_sum = [i \in 1..NCh |-> 0]
    /\ current_data = NoData
    /\ rpc = "idle"
    /\ gui = GuiInit
    /\ legacy = LegacyInit

----------------------------------------------------------------------------
(* fast_process, reference mode (reference["channel"] != 0) *)

\* advance of a ring index: += 1, back to 0 at the capacity
NextIndex(idx, capacity) == IF idx + 1 = capacity THEN 0 ELSE idx + 1

\* Classify with an entry at exactly floor(-period/2) discarded
Classify_LowerOpen(difference, period) ==
    IF difference <= (-period) \div 2 THEN "discard"
    ELSE IF difference < period \div 2 THEN "record"
    ELSE "stop"

\* Classify with an entry at exactly floor(period/2) recorded
Classify_UpperClosed(difference, period) ==
    IF difference < (-period) \div 2 THEN "discard"
    ELSE IF difference <= period \div 2 THEN "record"
    ELSE "stop"

\* lines 90-96: what the drain does with a buffered entry
Classify(difference, period) ==
    IF difference < (-period) \div 2 THEN "discard"
    ELSE IF difference < period \div 2 THEN "record"
    ELSE "stop"

\* position (from 1) of histograms[i, col] in the array's memory; numba
\* compiles the access without a bounds check
HistPos(i, col, width) == (i - 1) * width + col + 1

\* the break with the entry that stopped the drain skipped
StopDrain_SkipsEntry(i, s) ==
    [s EXCEPT !.channels[i].buffer_read_index = NextIndex(@, TagsToStore)]

\* lines 95-96: the break leaves the entry that stopped the drain in the ring
StopDrain(i, s) == s

\* lines 88-105 for channel i, on s = [channels, histograms, fault]: the
\* while loop over the pending ring.  A record at or past the row's width is
\* written where the address falls: in the next channel's row, or past the
\* end of the array (fault).
RECURSIVE DrainChannel(_, _, _, _)
DrainChannel(i, s, ref, stored) ==
    LET ch == s.channels[i]
        difference == stored[i][ch.buffer_read_index + 1] - ref.last
        next_read == NextIndex(ch.buffer_read_index, TagsToStore)
        what == Classify(difference, ref.period)
        pos == HistPos(i, ch.index, HistWidth(ref))
    IN IF s.fault \/ ch.buffer_write_index = ch.buffer_read_index THEN s
       ELSE IF what = "discard"
       THEN DrainChannel(i, [s EXCEPT !.channels[i].buffer_read_index = next_read],
                         ref, stored)
       ELSE IF what = "record"
       THEN IF pos > Len(s.histograms)
            THEN [s EXCEPT !.fault = TRUE]
            ELSE DrainChannel(i, [s EXCEPT !.histograms[pos] = difference,
                                           !.channels[i].index = @ + 1,
                                           !.channels[i].buffer_read_index = next_read],
                              ref, stored)
       ELSE StopDrain(i, s)

\* lines 87-105: the drain of every channel, in channel order
RECURSIVE DrainFrom(_, _, _, _)
DrainFrom(i, s, ref, stored) ==
    IF i > NCh THEN s
    ELSE DrainFrom(i + 1, DrainChannel(i, s, ref, stored), ref, stored)

Drain(chs, hist, ref, stored) ==
    DrainFrom(1, [channels |-> chs, histograms |-> hist, fault |-> FALSE], ref, stored)

\* lines 130-134: the offset of a channel for a tag at time t
AnchorOffset(ch, t, ref) ==
    IF ch.offset = -1
    THEN LET difference == t - ref.last
         IN IF difference > ref.period \div 2 THEN difference - ref.period ELSE difference
    ELSE ch.offset

\* ChannelOf with a tag of an unknown channel taken for the first channel
ChannelOf_FirstIfUnknown(chs, c) ==
    IF \E i \in 1..Len(chs) : chs[i].channel = c
    THEN CHOOSE i \in 1..Len(chs) : chs[i].channel = c
    ELSE 1

\* index (from 1) of the channel record with this id, 0 if there is none
ChannelOf(chs, c) ==
    IF \E i \in 1..Len(chs) : chs[i].channel = c
    THEN CHOOSE i \in 1..Len(chs) : chs[i].channel = c
    ELSE 0

\* lines 135-138: the push of a tag into the pending ring of channel i
PushChannel(ch, t, ref) ==
    [ch EXCEPT !.offset = AnchorOffset(ch, t, ref),
               !.buffer_write_index = NextIndex(ch.buffer_write_index, TagsToStore)]

PushStored(row, ch, t, ref) ==
    [row EXCEPT ![ch.buffer_write_index + 1] = t - AnchorOffset(ch, t, ref)]

\* sums over the slice histograms[i, :index], which numpy clips to the row
RECURSIVE RowSum(_, _, _, _)
RowSum(hist, first, len, sq) ==
    IF len = 0 THEN 0
    ELSE (IF sq THEN hist[first + len - 1] * hist[first + len - 1] ELSE hist[first + len - 1])
         + RowSum(hist, first, len - 1, sq)

SliceLen(index, width) == IF index < width THEN index ELSE width

\* CloseCell with zeros in place of NaN for a channel without samples
CloseCell_ZeroForEmpty(ch, i, hist, ref) ==
    LET m == SliceLen(ch.index, HistWidth(ref))
        first == HistPos(i, 0, HistWidth(ref))
    IN [nan |-> FALSE,
        sum |-> RowSum(hist, first, m, FALSE),
        sumsq |-> RowSum(hist, first, m, TRUE),
        m |-> m, n |-> ch.index, off |-> ch.offset, cycle |-> ref.count]

\* lines 110-119: the cell written for channel i when the cycle closes
CloseCell(ch, i, hist, ref) ==
    IF ch.index = 0
    THEN NaNCell(ref.count)
    ELSE LET m == SliceLen(ch.index, HistWidth(ref))
             first == HistPos(i, 0, HistWidth(ref))
         IN [nan |-> FALSE,
             sum |-> RowSum(hist, first, m, FALSE),
             sumsq |-> RowSum(hist, first, m, TRUE),
             m |-> m, n |-> ch.index, off |-> ch.offset, cycle |-> ref.count]

\* line 113
NoEventsMessage(c) == [text |-> "No events on channel", channel |-> c]

\* lines 120-126: the end of the cycle close
CloseReference(ref, size) ==
    [ref EXCEPT !.data_index = NextIndex(ref.data_index, size),
                !.count = @ + 1,
                !.index = 0]

----------------------------------------------------------------------------
(* PpsData and getDataObject *)

\* the ring taken as it lies in memory, from slot 0
Linearise_FromZero(a, start) == a

\* numpy.concatenate((a[start:], a[:start]))
Linearise(a, start) == SubSeq(a, start + 1, Len(a)) \o SubSeq(a, 1, start)

PpsData(d, rt, rtc, ref) ==
    [valid |-> TRUE,
     count |-> ref.count,
     offset |-> ref.count,
     data |-> [i \in 1..Len(d) |-> Linearise(d[i], ref.data_index)],
     reftime |-> Linearise(rt, ref.data_index),
     reftime_cycle |-> Linearise(rtc, ref.data_index)]

\* PpsData.getIndex: numpy.arange(offset - capacity, offset)
getIndex(pd) ==
    [j \in 1..Len(pd.reftime) |-> pd.offset - Len(pd.reftime) + j - 1]

\* line 115: the test made before the mutex is taken
SnapshotStale(cur, ref) == ~cur.valid \/ cur.count # ref.count

----------------------------------------------------------------------------
(* PpsTracking.process: the thread that delivers the tag batches.  The
   measurement's mutex is held from ProcessBegin to ProcessEnd, i.e. while
   pc # "idle" (the TimeTagger backend calls process() with the lock of the
   measurement acquired).  The tags of a batch are drawn one by one as the
   loop of fast_process reaches them, in non-decreasing time order. *)

Init ==
    /\ \E p \in Periods, n \in NAverages : CoreInit(p, n, MaxTags)
    /\ clk = ClockInit(2, ClockPeriod)
    /\ tick_log = <<>>
    /\ last_call = NoCall
    /\ emitted = <<>>

\* process() is entered; fast_process starts with messages = []
ProcessBegin ==
    /\ pc = "idle"
    /\ ~fault
    /\ pc' = "loop"
    /\ messages' = <<>>
    /\ drain_log' = NoDrain
    /\ UNCHANGED <<reference, channels, stored_tags, histograms, data, data_reftime,
                   reftime_cycle, ci, now, budget, fault, nrefs, fed>>
    /\ raised' = ""
    /\ UNCHANGED <<storage_count, utc_timestamps, rows>>
    /\ UNCHANGED rawVars
    /\ UNCHANGED readerVars
    /\ UNCHANGED clockVars

\* history: over the ring slots from to .. stop - 1 of a channel, the sum of
\* (raw tag time - reference["last"]) of the entries the drain records
RECURSIVE RawRecorded(_, _, _, _, _)
RawRecorded(raw_row, stored_row, from, stop, ref) ==
    IF from = stop THEN 0
    ELSE (IF Classify(stored_row[from + 1] - ref.last, ref.period) = "record"
          THEN raw_row[from + 1] - ref.last
          ELSE 0)
         + RawRecorded(raw_row, stored_row, NextIndex(from, TagsToStore), stop, ref)

\* the cycle closing one reference tag late
CycleComplete_OneLate(ref) == ref.index > ref.n_average

\* line 108: the cycle is complete
CycleComplete(ref) == ref.index >= ref.n_average

\* lines 85-108: a tag of the reference channel
ReferenceTag ==
    /\ pc = "loop"
    /\ ~fault
    /\ reference.channel # 0
    /\ budget > 0
    /\ budget' = budget - 1
    /\ \E t \in now..MaxTime :
          LET s == IF reference.last > 0
                   THEN Drain(channels, histograms, reference, stored_tags)
                   ELSE [channels |-> channels, histograms |-> histograms, fault |-> FALSE]
              ref1 == [reference EXCEPT !.last = t, !.index = @ + 1]
          IN /\ now' = t
             /\ channels' = s.channels
             /\ histograms' = s.histograms
             /\ fault' = s.fault
             /\ reference' = IF s.fault THEN reference ELSE ref1
             /\ pc' = IF ~s.fault /\ CycleComplete(ref1) THEN "close" ELSE pc
             /\ ci' = IF ~s.fault /\ CycleComplete(ref1) THEN 1 ELSE ci
             /\ nrefs' = IF s.fault THEN nrefs ELSE nrefs + 1
    /\ drain_log' = IF reference.last > 0
                    THEN [ran |-> TRUE, last |-> reference.last, channels |-> channels,
                          tag |-> reference.channel]
                    ELSE [NoDrain EXCEPT !.tag = reference.channel]
    /\ fed' = [seen |-> [i \in 1..NCh |-> FALSE],
               ok |-> (reference.index = 0 \/ fed.ok) /\ \A i \in 1..NCh : fed.seen[i]]
    /\ raw_sum' = IF reference.last > 0
                  THEN [i \in 1..NCh |->
                          raw_sum[i] + RawRecorded(raw_tags[i], stored_tags[i],
                                                   channels[i].buffer_read_index,
                                                   channels'[i].buffer_read_index,
                                                   reference)]
                  ELSE raw_sum
    /\ UNCHANGED <<stored_tags, data, data_reftime, reftime_cycle, messages, raw_tags>>
    /\ UNCHANGED storeVars
    /\ UNCHANGED readerVars
    /\ UNCHANGED clockVars

\* whether slot data_index lies inside the Result Buffer
SlotInside == reference.data_index < Len(data_reftime)

\* lines 109-119: one pass of the close loop, for channel ci.  The compiled
\* code makes no bounds check: a store to a slot outside the array is
\* undefined, which the model records as a fault and follows no further.
CloseChannel ==
    /\ pc = "close"
    /\ ~fault
    /\ ci <= NCh
    /\ IF SlotInside
       THEN /\ data' = [data EXCEPT ![ci][reference.data_index + 1] =
                                       CloseCell(channels[ci], ci, histograms, reference)]
            /\ messages' = IF channels[ci].index = 0
                           THEN Append(messages, NoEventsMessage(channels[ci].channel))
                           ELSE messages
            /\ channels' = [channels EXCEPT ![ci].index = 0]
            /\ ci' = ci + 1
            /\ raw_sum' = [raw_sum EXCEPT ![ci] = 0]
            /\ fault' = fault
       ELSE /\ fault' = TRUE
            /\ UNCHANGED <<data, messages, channels, ci, raw_sum>>
    /\ drain_log' = NoDrain
    /\ UNCHANGED <<reference, stored_tags, histograms, data_reftime, reftime_cycle,
                   pc, now, budget, nrefs, fed>>
    /\ UNCHANGED raw_tags
    /\ UNCHANGED storeVars
    /\ UNCHANGED readerVars
    /\ UNCHANGED clockVars

\* lines 120-126: the row's reference time, the reset and the counters
CloseFinish ==
    /\ pc = "close"
    /\ ~fault
    /\ ci = NCh + 1
    /\ data_reftime' = [data_reftime EXCEPT ![reference.data_index + 1] = reference.last]
    /\ reftime_cycle' = [reftime_cycle EXCEPT ![reference.data_index + 1] = reference.count]
    /\ histograms' = [k \in DOMAIN histograms |-> 0]
    /\ reference' = CloseReference(reference, Len(data_reftime))
    /\ pc' = "loop"
    /\ ci' = 0
    /\ drain_log' = NoDrain
    /\ UNCHANGED <<channels, stored_tags, data, messages, now, budget, fault, nrefs, fed>>
    /\ UNCHANGED storeVars
    /\ UNCHANGED rawVars
    /\ UNCHANGED readerVars
    /\ UNCHANGED clockVars

\* lines 127-139: a tag of any other channel
SignalTag ==
    /\ pc = "loop"
    /\ ~fault
    /\ reference.channel # 0
    /\ budget > 0
    /\ budget' = budget - 1
    /\ \E c \in {SignalChannels[i] : i \in 1..NCh} \cup {OtherChannel}, t \in now..MaxTime :
          LET i == ChannelOf(channels, c)
          IN /\ now' = t
             /\ IF reference.last > 0 /\ i # 0
                THEN /\ channels' = [channels EXCEPT ![i] = PushChannel(channels[i], t, reference)]
                     /\ stored_tags' = [stored_tags EXCEPT ![i] =
                                           PushStored(stored_tags[i], channels[i], t, reference)]
                     /\ raw_tags' = [raw_tags EXCEPT ![i][channels[i].buffer_write_index + 1] = t]
                ELSE UNCHANGED <<channels, stored_tags, raw_tags>>
             /\ fed' = IF i # 0 THEN [fed EXCEPT !.seen[i] = TRUE] ELSE fed
             /\ drain_log' = [NoDrain EXCEPT !.tag = c]
    /\ UNCHANGED <<reference, histograms, data, data_reftime, reftime_cycle, messages,
                   pc, ci, fault, nrefs>>
    /\ UNCHANGED raw_sum
    /\ UNCHANGED storeVars
    /\ UNCHANGED readerVars
    /\ UNCHANGED clockVars

\* lines 140-141: a tag whose type is not 0 (an overflow marker) is only printed
OverflowTag ==
    /\ pc = "loop"
    /\ ~fault
    /\ budget > 0
    /\ budget' = budget - 1
    /\ \E t \in now..MaxTime : now' = t
    /\ drain_log' = NoDrain
    /\ UNCHANGED <<reference, channels, stored_tags, histograms, data, data_reftime,
                   reftime_cycle, messages, pc, ci, fault, nrefs, fed>>
    /\ UNCHANGED storeVars
    /\ UNCHANGED rawVars
    /\ UNCHANGED readerVars
    /\ UNCHANGED clockVars

\* the row _store_timetags writes for a slot of the ring: the index column,
\* the reference time, and (history) the cycle whose close filled the slot
DataRow(count, index, rt, rtc) ==
    [index |-> count, reference |-> rt[index + 1], cycle |-> rtc[index + 1]]

\* line 226: the row written for a cycle the ring no longer holds
MissingRow == [index |-> -1, reference |-> 0, cycle |-> -1]

\* lines 225-227 on st = [utc, storage_count, rows, raised]
RECURSIVE StoreMissing(_, _, _)
StoreMissing(rows_to_write, n_data, st) ==
    IF rows_to_write > n_data
    THEN StoreMissing(rows_to_write - 1, n_data, [st EXCEPT !.rows = Append(@, MissingRow)])
    ELSE st

\* lines 231-232: entries older than the one before the reference are dropped
RECURSIVE PopOlder(_, _)
PopOlder(utc, reftime) ==
    IF Len(utc) >= 2 /\ utc[2] < reftime THEN PopOlder(Tail(utc), reftime) ELSE utc

\* lines 228-248: the rows of the cycles not stored yet, oldest first.
\* __utc_timestamps[1] raises IndexError when the list has one entry; the
\* interpolation between the two entries divides by t2 - t1.
RECURSIVE StoreRows(_, _, _, _, _)
StoreRows(rows_to_write, st, ref, rt, rtc) ==
    IF rows_to_write = 0 \/ st.raised # "" THEN st
    ELSE LET index == (ref.data_index - rows_to_write) % Len(rt)
             utc == PopOlder(st.utc, rt[index + 1])
         IN IF Len(utc) < 2
            THEN [st EXCEPT !.utc = utc, !.raised = "IndexError"]
            ELSE IF utc[2] = utc[1]
            THEN [st EXCEPT !.utc = utc, !.raised = "ZeroDivisionError"]
            ELSE StoreRows(rows_to_write - 1,
                           [st EXCEPT !.utc = utc,
                                      !.storage_count = @ + 1,
                                      !.rows = Append(@, DataRow(st.storage_count,
                                                                 index, rt, rtc))],
                           ref, rt, rtc)

\* lines 218-249: _store_timetags (the data file is open)
_store_timetags(st, ref, rt, rtc) ==
    LET rows_to_write == ref.count - st.storage_count
        n_data == Len(rt)
        st1 == StoreMissing(rows_to_write, n_data, st)
    IN StoreRows(IF rows_to_write > n_data THEN n_data ELSE rows_to_write,
                 st1, ref, rt, rtc)

\* fast_process returns its messages and process() leaves: lines 133-135.
\* The (end_time, now) pair of line 125 is appended here: nothing reads the
\* list between line 125 and _store_timetags.  end_time is later than every
\* tag of the batch and no later than the tags of the next batch.
ProcessEnd ==
    /\ pc = "loop"
    /\ ~fault
    /\ pc' = "idle"
    /\ drain_log' = NoDrain
    /\ \E end_time \in (now + 1)..(MaxTime + 1) :
          LET st == _store_timetags([utc |-> Append(utc_timestamps, end_time),
                                     storage_count |-> storage_count,
                                     rows |-> rows, raised |-> ""],
                                    reference, data_reftime, reftime_cycle)
          IN /\ now' = end_time
             /\ utc_timestamps' = st.utc
             /\ storage_count' = st.storage_count
             /\ rows' = st.rows
             /\ raised' = st.raised
    /\ UNCHANGED <<reference, channels, stored_tags, histograms, data, data_reftime,
                   reftime_cycle, messages, ci, budget, fault, nrefs, fed>>
    /\ UNCHANGED rawVars
    /\ UNCHANGED readerVars
    /\ UNCHANGED clockVars

----------------------------------------------------------------------------
(* PpsTracking.getDataObject: the display thread *)

\* line 115: reference["count"] is compared outside the mutex; a fresh cache
\* is returned as it is
GetDataCheck ==
    /\ rpc = "idle"
    /\ ~fault
    /\ rpc' = IF SnapshotStale(current_data, reference) THEN "lock" ELSE "idle"
    /\ UNCHANGED <<current_data, gui, legacy>>
    /\ UNCHANGED coreVars
    /\ UNCHANGED clockVars

\* getDataObject copying without the mutex
MutexFree_NoLock == TRUE

\* whether the reader may enter "with self.mutex"
MutexFree == pc = "idle"

\* lines 116-118: the copy, made holding the mutex
GetDataCopy ==
    /\ rpc = "lock"
    /\ ~fault
    /\ MutexFree
    /\ current_data' = PpsData(data, data_reftime, reftime_cycle, reference)
    /\ rpc' = "idle"
    /\ UNCHANGED <<gui, legacy>>
    /\ UNCHANGED coreVars
    /\ UNCHANGED clockVars

\* the measurement alone
Next ==
    \/ ProcessBegin
    \/ ReferenceTag
    \/ CloseChannel
    \/ CloseFinish
    \/ SignalTag
    \/ OverflowTag
    \/ ProcessEnd

Spec == Init /\ [][Next]_vars

\* the measurement and the display thread
InitReader ==
    /\ \E p \in Periods, n \in NAverages : CoreInit(p, n, MaxTagsReader)
    /\ clk = ClockInit(2, ClockPeriod)
    /\ tick_log = <<>>
    /\ last_call = NoCall
    /\ emitted = <<>>

NextReader ==
    \/ Next
    \/ GetDataCheck
    \/ GetDataCopy

SpecReader == InitReader /\ [][NextReader]_vars

\* the measurement alone in a longer run: one more tag, with the period
\* whose acquisition can compute the offset -1 and n_average = 1
MaxTagsLong == 5

InitLong ==
    /\ CoreInit(3, 1, MaxTagsLong)
    /\ clk = ClockInit(2, ClockPeriod)
    /\ tick_log = <<>>
    /\ last_call = NoCall
    /\ emitted = <<>>

SpecLong == InitLong /\ [][Next]_vars

----------------------------------------------------------------------------
(* PpsTracking.setTimetagsMaximum: the GUI thread changes the capacity of the
   Result Buffer.  The whole body runs with the measurement's mutex held, so
   it is one step taken while neither process() nor the copy of
   getDataObject is inside the lock.  Its "increase" / "decrease" text goes
   to the message log of the measurement, not to the list of fast_process. *)

\* the values the GUI passes
MaxResize == 3

ResizeValues == (0 - 1)..MaxResize

\* the tags and capacity changes of a run, taken together
MaxTagsResize == 4

\* lines 145-151 and 153-157 on one array of the ring: the padding goes in
\* at data_index, a smaller array is the slice [start:end]
ResizeRow(a, index, value, pad) ==
    LET current_size == Len(a)
    IN IF value > current_size
       THEN SubSeq(a, 1, index) \o [k \in 1..(value - current_size) |-> pad]
              \o SubSeq(a, index + 1, current_size)
       ELSE IF value < current_size
            THEN LET end == IF index > value THEN index ELSE value
                     start == end - value
                 IN IF start >= end THEN <<>> ELSE SubSeq(a, start + 1, end)
            ELSE a

\* lines 158-160: data_index follows the slice
ResizeIndex(index, current_size, value) ==
    IF value < current_size
    THEN LET end == IF index > value THEN index ELSE value
             start == end - value
         IN IF index - start = value THEN 0 ELSE index - start
    ELSE index

\* lines 140-161
setTimetagsMaximum ==
    /\ pc = "idle"
    /\ ~fault
    /\ budget > 0
    /\ budget' = budget - 1
    /\ \E value \in ResizeValues :
          LET current_size == Len(data_reftime)
              index == reference.data_index
          IN /\ data_reftime' = ResizeRow(data_reftime, index, value, 0)
             /\ reftime_cycle' = ResizeRow(reftime_cycle, index, value, 0 - 1)
             /\ data' = [i \in 1..NCh |-> ResizeRow(data[i], index, value, NaNCell(0 - 1))]
             /\ reference' = [reference EXCEPT
                                 !.data_index = ResizeIndex(index, current_size, value)]
    /\ drain_log' = NoDrain
    /\ UNCHANGED <<channels, stored_tags, histograms, messages, pc, ci, now, fault,
                   nrefs, fed>>
    /\ UNCHANGED storeVars
    /\ UNCHANGED rawVars
    /\ UNCHANGED readerVars
    /\ UNCHANGED clockVars

InitResize ==
    /\ CoreInit(2, 1, MaxTagsResize)
    /\ clk = ClockInit(2, ClockPeriod)
    /\ tick_log = <<>>
    /\ last_call = NoCall
    /\ emitted = <<>>

NextResize ==
    \/ NextReader
    \/ setTimetagsMaximum

SpecResize == InitResize /\ [][NextResize]_vars

----------------------------------------------------------------------------
(* The message log of the measurement and the DisplayUpdater thread.
   _new_message runs on the thread that appends (process(), on the
   TimeTagger worker); DisplayUpdater.run reads message_index and
   getMessages without a lock.  A message is represented by its number in
   the order of the appends. *)

\* measurement.py line 170: self.__messages[from_index:]
getMessages(log, from_index) ==
    IF from_index >= Len(log) THEN <<>> ELSE SubSeq(log, from_index + 1, Len(log))

\* measurement.py line 179: the append
NewMessageAppend ==
    /\ gui.wpc = "idle"
    /\ Len(gui.messages) < MaxMessages
    /\ gui' = [gui EXCEPT !.messages = Append(@, Len(@) + 1), !.wpc = "appended"]
    /\ UNCHANGED coreVars
    /\ UNCHANGED <<current_data, rpc, legacy>>
    /\ UNCHANGED clockVars

\* measurement.py line 180: the counter
NewMessageCount ==
    /\ gui.wpc = "appended"
    /\ gui' = [gui EXCEPT !.message_index = @ + 1, !.wpc = "idle"]
    /\ UNCHANGED coreVars
    /\ UNCHANGED <<current_data, rpc, legacy>>
    /\ UNCHANGED clockVars

\* user_interface.py line 53: the test of the counter
RunCheck ==
    /\ gui.upc = "check"
    /\ gui.message_index > gui.last_message
    /\ gui' = [gui EXCEPT !.upc = "fetch"]
    /\ UNCHANGED coreVars
    /\ UNCHANGED <<current_data, rpc, legacy>>
    /\ UNCHANGED clockVars

\* user_interface.py lines 54-55: the slice is copied and passed to
\* add_message entry by entry
RunDeliver ==
    /\ gui.upc = "fetch"
    /\ gui' = [gui EXCEPT !.delivered = @ \o getMessages(gui.messages, gui.last_message),
                          !.upc = "advance"]
    /\ UNCHANGED coreVars
    /\ UNCHANGED <<current_data, rpc, legacy>>
    /\ UNCHANGED clockVars

\* user_interface.py line 56: last_message takes the counter as it is now
RunAdvance ==
    /\ gui.upc = "advance"
    /\ gui' = [gui EXCEPT !.last_message = gui.message_index, !.upc = "check"]
    /\ UNCHANGED coreVars
    /\ UNCHANGED <<current_data, rpc, legacy>>
    /\ UNCHANGED clockVars

InitMessages ==
    /\ CoreInit(2, 1, 0)
    /\ clk = ClockInit(2, ClockPeriod)
    /\ tick_log = <<>>
    /\ last_call = NoCall
    /\ emitted = <<>>

NextMessages ==
    \/ NewMessageAppend
    \/ NewMessageCount
    \/ RunCheck
    \/ RunDeliver
    \/ RunAdvance

SpecMessages == InitMessages /\ [][NextMessages]_vars

----------------------------------------------------------------------------
(* The legacy tracker PPStracking.PpsTracking, without an external clock *)

\* the tags one measurement receives, the newest time tag and the values
\* passed to setTimetagsMaximum
MaxLegacyTags == 5
MaxLegacyTime == 3
MaxLegacyMax == 2
LegacyMaxValues == (0 - 1)..MaxLegacyMax

\* Python's lst[start:]
SliceFrom(lst, start) ==
    LET n == Len(lst)
        s == IF start < 0
             THEN (IF n + start < 0 THEN 0 ELSE n + start)
             ELSE (IF start > n THEN n ELSE start)
    IN SubSeq(lst, s + 1, n)

\* TimeTagGroup.__init__
TimeTagGroup(index, reference_tag) ==
    [index |-> index, reference_tag |-> reference_tag,
     channel_tags |-> [i \in 1..NCh |-> NoTag]]

\* TimeTagGroup.get_missing_channels
get_missing_channels(g) == {i \in 1..NCh : g.channel_tags[i] = NoTag}

\* TimeTagGroup.get_channel_tags: per channel the distance from the
\* reference tag, NaN for a channel without a tag
get_channel_tags(g) ==
    [i \in 1..NCh |-> IF g.channel_tags[i] = NoTag
                      THEN [nan |-> TRUE, value |-> 0]
                      ELSE [nan |-> FALSE, value |-> g.channel_tags[i] - g.reference_tag]]

\* PpsTracking.getData: one column per retained tag group
Legacy_getData(l) == [j \in 1..Len(l._timetags) |-> get_channel_tags(l._timetags[j])]

\* the position of a channel in PpsTracking.channels
ChannelIndex(c) == CHOOSE i \in 1..NCh : SignalChannels[i] = c

\* _select_tags_within_range: the loop from list position k (counted from 1)
\* on; returns the group and the value of `index` when the loop ends
RECURSIVE SelectFrom(_, _, _, _)
SelectFrom(k, g, tags, half) ==
    IF k > Len(tags) THEN [group |-> g, index |-> IF Len(tags) = 0 THEN 0 ELSE Len(tags) - 1]
    ELSE IF tags[k][2] > g.reference_tag + half THEN [group |-> g, index |-> k - 1]
    ELSE SelectFrom(k + 1,
                    IF tags[k][2] >= g.reference_tag - half
                    THEN [g EXCEPT !.channel_tags[ChannelIndex(tags[k][1])] = tags[k][2]]
                    ELSE g,
                    tags, half)

_select_tags_within_range(l) ==
    SelectFrom(1, l._reference_tag, l._channel_tags, LegacyPeriod \div 2)

\* _next_tag_group; _store_timetag writes one row to the data file (the
\* change of the file at new_file_time is not part of the model)
_next_tag_group(l, timetag) ==
    LET g == l._reference_tag
        appended == Append(l._timetags, g)
        l1 == IF g = NoGroup THEN l
              ELSE [l EXCEPT !._message_index =
                                 IF get_missing_channels(g) # {} THEN @ + 1 ELSE @,
                             !.rows = @ + 1,
                             !._timetags =
                                 IF Len(appended) > l._max_timetags
                                 THEN SliceFrom(appended, 0 - l._max_timetags)
                                 ELSE appended]
    IN [l1 EXCEPT !._reference_tag = TimeTagGroup(l._timetag_index, timetag),
                  !._timetag_index = @ + 1]

\* measure, lines 150-168, for one tag of the reference channel
LegacyReferenceTag ==
    /\ legacy._timetag_index + Len(legacy._channel_tags) < MaxLegacyTags
    /\ \E t \in legacy.time..MaxLegacyTime :
          LET sel == _select_tags_within_range(legacy)
              l1 == IF legacy._reference_tag = NoGroup THEN legacy
                    ELSE [legacy EXCEPT !._reference_tag = sel.group,
                                        !._channel_tags = SliceFrom(@, sel.index)]
          IN legacy' = [_next_tag_group(l1, t) EXCEPT !.time = t]
    /\ UNCHANGED coreVars
    /\ UNCHANGED <<current_data, rpc, gui>>
    /\ UNCHANGED clockVars

\* measure, lines 150-153 and 165-168, for one tag of a signal channel
LegacySignalTag ==
    /\ legacy._timetag_index + Len(legacy._channel_tags) < MaxLegacyTags
    /\ \E i \in 1..NCh, t \in legacy.time..MaxLegacyTime :
          legacy' = [legacy EXCEPT !._channel_tags = Append(@, <<SignalChannels[i], t>>),
                                   !.time = t]
    /\ UNCHANGED coreVars
    /\ UNCHANGED <<current_data, rpc, gui>>
    /\ UNCHANGED clockVars

\* PpsTracking.setTimetagsMaximum of the legacy tracker
Legacy_setTimetagsMaximum ==
    /\ \E value \in LegacyMaxValues :
          legacy' = [legacy EXCEPT !._max_timetags = IF value > 0 THEN value ELSE 0]
    /\ UNCHANGED coreVars
    /\ UNCHANGED <<current_data, rpc, gui>>
    /\ UNCHANGED clockVars

InitLegacy ==
    /\ CoreInit(2, 1, 0)
    /\ clk = ClockInit(2, ClockPeriod)
    /\ tick_log = <<>>
    /\ last_call = NoCall
    /\ emitted = <<>>

NextLegacy ==
    \/ LegacyReferenceTag
    \/ LegacySignalTag
    \/ Legacy_setTimetagsMaximum

SpecLegacy == InitLegacy /\ [][NextLegacy]_vars

----------------------------------------------------------------------------
(* PpsTracking.__init__ called with arbitrary arguments, and fast_process in
   the mode without a reference channel (reference["channel"] == 0) *)

\* the arguments channels, reference_channel (None and 0 both give
\* reference["channel"] = 0: line 70), period and n_average
ConfigChannels == {<<>>, SignalChannels}
ConfigRefChannels == {0, RefChannel}
ConfigPeriods == {0, 1, 2}
ConfigNAverages == {-1, 0, 1}
\* number of tags delivered to a measurement built by Construct, with and
\* without a reference channel
MaxTagsConfig == 3
MaxTagsNoRef == 6

\* no PpsTracking object exists yet
InitConfig ==
    /\ pc = "new"
    /\ reference = [ReferenceInit(0, 0) EXCEPT !.channel = 0]
    /\ channels = <<>>
    /\ stored_tags = <<>>
    /\ histograms = <<>>
    /\ data = <<>>
    /\ data_reftime = <<>>
    /\ reftime_cycle = <<>>
    /\ messages = <<>>
    /\ ci = 0
    /\ now = 1
    /\ budget = 0
    /\ fault = FALSE
    /\ nrefs = 0
    /\ fed = [seen |-> [i \in 1..NCh |-> FALSE], ok |-> FALSE]
    /\ drain_log = NoDrain
    /\ storage_count = 0
    /\ utc_timestamps = <<>>
    /\ rows = <<>>
    /\ raised = ""
    /\ raw_tags = [i \in 1..NCh |-> [k \in 1..TagsToStore |-> 0]]
    /\ raw_sum = [i \in 1..NCh |-> 0]
    /\ current_data = NoData
    /\ rpc = "idle"
    /\ gui = GuiInit
    /\ legacy = LegacyInit
    /\ clk = ClockInit(2, ClockPeriod)
    /\ tick_log = <<>>
    /\ last_call = NoCall
    /\ emitted = <<>>

\* lines 42-106.  The only test of the arguments is `if not channels` (lines
\* 52-53); numpy.zeros raises ValueError for a negative width (line 73).
\* When the constructor raises, reference keeps the arguments of the call.
Construct ==
    /\ pc = "new"
    /\ \E chs \in ConfigChannels, rc \in ConfigRefChannels,
          p \in ConfigPeriods, n \in ConfigNAverages :
          /\ reference' = [ReferenceInit(p, n) EXCEPT !.channel = rc]
          /\ IF chs = <<>> \/ n + HistSlack < 0
             THEN /\ pc' = "failed"
                  /\ raised' = "ValueError"
                  /\ UNCHANGED <<channels, stored_tags, histograms, data, data_reftime,
                                 reftime_cycle, budget>>
             ELSE /\ pc' = "idle"
                  /\ raised' = ""
                  /\ channels' = [i \in 1..Len(chs) |-> ChannelInit(chs[i])]
                  /\ stored_tags' = [i \in 1..Len(chs) |-> [k \in 1..TagsToStore |-> 0]]
                  /\ histograms' = [k \in 1..(Len(chs) * (n + HistSlack)) |-> 0]
                  /\ data' = [i \in 1..Len(chs) |-> [j \in 1..MaxTimetags |-> NaNCell(-1)]]
                  /\ data_reftime' = [j \in 1..MaxTimetags |-> 0]
                  /\ reftime_cycle' = [j \in 1..MaxTimetags |-> -1]
                  /\ budget' = IF rc = 0 THEN MaxTagsNoRef ELSE MaxTagsConfig
    /\ UNCHANGED <<messages, ci, now, fault, nrefs, fed, drain_log, storage_count,
                   utc_timestamps, rows>>
    /\ UNCHANGED rawVars
    /\ UNCHANGED readerVars
    /\ UNCHANGED clockVars

\* lines 59-62 with `if` in the place of `while`: at most one period is added
AdvanceLast_Once(ref, threshold) ==
    IF ref.last < threshold
    THEN [ref EXCEPT !.last = @ + ref.period, !.index = @ + 1]
    ELSE ref

\* lines 59-62: reference["last"] is advanced by whole periods up to the
\* threshold
RECURSIVE AdvanceLast(_, _)
AdvanceLast(ref, threshold) ==
    IF ref.last < threshold
    THEN AdvanceLast([ref EXCEPT !.last = @ + ref.period, !.index = @ + 1], threshold)
    ELSE ref

\* lines 59-62 with a period that is not positive: the loop does not end
Hangs(ref, threshold) == ref.period <= 0 /\ ref.last < threshold

\* lines 65-68: the cell written for channel i (channels[i]["index"] > 0)
NoRefCell(ch, i, hist, ref) ==
    LET m == SliceLen(ch.index, HistWidth(ref))
        first == HistPos(i, 0, HistWidth(ref))
    IN [nan |-> FALSE,
        sum |-> RowSum(hist, first, m, FALSE),
        sumsq |-> RowSum(hist, first, m, TRUE),
        m |-> m, n |-> ch.index, off |-> ref.period, cycle |-> ref.count]

\* lines 64-69 from channel i on, on s = [channels, data, raised]: the
\* division by channels[i]["index"] raises ZeroDivisionError for a channel
\* without samples, after the cells of the channels before it were written
RECURSIVE NoRefClose(_, _, _, _)
NoRefClose(i, s, hist, ref) ==
    IF i > Len(s.channels) THEN s
    ELSE IF s.channels[i].index = 0 THEN [s EXCEPT !.raised = "ZeroDivisionError"]
    ELSE NoRefClose(i + 1,
                    [s EXCEPT !.data[i][ref.data_index + 1] =
                                  NoRefCell(s.channels[i], i, hist, ref),
                              !.channels[i].index = 0],
                    hist, ref)

\* lines 76-82: the tag of a monitored channel is recorded as the distance
\* from the channel's previous tag, less one period
NoRefRecord(chs, hist, i, t, ref) ==
    LET ch == chs[i]
        rec == ch.offset > 0 /\ ch.index < HistWidth(ref)
    IN [channels |-> [chs EXCEPT ![i].index = IF rec THEN @ + 1 ELSE @,
                                 ![i].offset = t],
        histograms |-> IF rec
                       THEN [hist EXCEPT ![HistPos(i, ch.index, HistWidth(ref))] =
                                             t - ch.offset - ref.period]
                       ELSE hist]

\* lines 54-82: a tag of type 0 in the mode without a reference channel.  An
\* exception leaves process() before _store_timetags, with the (end_time, now)
\* pair of line 125 appended.
NoRefTag ==
    /\ pc = "loop"
    /\ ~fault
    /\ reference.channel = 0
    /\ budget > 0
    /\ budget' = budget - 1
    /\ \E c \in {SignalChannels[i] : i \in 1..NCh} \cup {OtherChannel}, t \in now..MaxTime :
          LET ref1 == AdvanceLast(reference, t - reference.period)
              closing == ref1.index >= ref1.n_average
              s == IF closing
                   THEN NoRefClose(1, [channels |-> channels, data |-> data, raised |-> ""],
                                   histograms, ref1)
                   ELSE [channels |-> channels, data |-> data, raised |-> ""]
              i == ChannelOf(channels, c)
              r == IF i # 0
                   THEN NoRefRecord(s.channels, histograms, i, t, ref1)
                   ELSE [channels |-> s.channels, histograms |-> histograms]
          IN IF reference.last = 0
             THEN /\ reference' = [reference EXCEPT !.last = t]
                  /\ now' = t
                  /\ UNCHANGED <<channels, histograms, data, data_reftime, reftime_cycle,
                                 pc, utc_timestamps, raised>>
             ELSE IF Hangs(reference, t - reference.period)
             THEN /\ pc' = "hang"
                  /\ now' = t
                  /\ UNCHANGED <<reference, channels, histograms, data, data_reftime,
                                 reftime_cycle, utc_timestamps, raised>>
             ELSE IF s.raised # ""
             THEN /\ reference' = ref1
                  /\ channels' = s.channels
                  /\ data' = s.data
                  /\ raised' = s.raised
                  /\ pc' = "idle"
                  /\ \E end_time \in (t + 1)..(MaxTime + 1) :
                        /\ now' = end_time
                        /\ utc_timestamps' = Append(utc_timestamps, end_time)
                  /\ UNCHANGED <<histograms, data_reftime, reftime_cycle>>
             ELSE /\ reference' = IF closing THEN CloseReference(ref1, Len(data_reftime)) ELSE ref1
                  /\ data' = s.data
                  /\ data_reftime' = IF closing
                                     THEN [data_reftime EXCEPT ![ref1.data_index + 1] = ref1.last]
                                     ELSE data_reftime
                  /\ reftime_cycle' = IF closing
                                      THEN [reftime_cycle EXCEPT ![ref1.data_index + 1] = ref1.count]
                                      ELSE reftime_cycle
                  /\ channels' = r.channels
                  /\ histograms' = r.histograms
                  /\ now' = t
                  /\ UNCHANGED <<pc, utc_timestamps, raised>>
    /\ drain_log' = NoDrain
    /\ UNCHANGED <<stored_tags, messages, ci, fault, nrefs, fed, storage_count, rows>>
    /\ UNCHANGED rawVars
    /\ UNCHANGED readerVars
    /\ UNCHANGED clockVars

\* a measurement from its construction on
NextConfig ==
    \/ Construct
    \/ Next
    \/ NoRefTag

SpecConfig == InitConfig /\ [][NextConfig]_vars

----------------------------------------------------------------------------
(* The clock fitter as a state machine *)

ClockStart ==
    /\ clk \in {ClockInit(n, ClockPeriod) : n \in ClockLengths}
    /\ tick_log = <<>>
    /\ last_call = NoCall
    /\ emitted = <<>>
    /\ CoreInit(2, 1, 0)

\* the number of calls made so far: clock_time counts them in periods
ClockCalls == (clk.clock_time + clk.period) \div clk.period

NewTag ==
    /\ ClockCalls < MaxTicks
    /\ \E tag \in IF tick_log = <<>>
                  THEN clk.last_tag .. clk.last_tag + MaxFirstTick
                  ELSE clk.last_tag + clk.period - MaxJitter .. clk.last_tag + clk.period + MaxJitter :
          /\ clk' = new_tag(clk, tag)
          /\ tick_log' = Append(tick_log, tag)
          /\ last_call' = [NoCall EXCEPT !.op = "new_tag", !.n = last_call.n + 1,
                                         !.time = tag]
    /\ UNCHANGED emitted
    /\ UNCHANGED coreVars
    /\ UNCHANGED readerVars

Skip ==
    /\ ClockCalls < MaxTicks
    /\ \E k \in 1..MaxSkip :
          /\ clk' = skip(clk, k)
          /\ tick_log' = IF clk._reset_done THEN tick_log ELSE <<>>
          /\ last_call' = [NoCall EXCEPT !.op = "skip", !.n = last_call.n + 1,
                                         !.arg = k, !.time = last_call.time]
    /\ UNCHANGED emitted
    /\ UNCHANGED coreVars
    /\ UNCHANGED readerVars

ClockNext == NewTag \/ Skip

SpecClock == ClockStart /\ [][ClockNext]_vars

----------------------------------------------------------------------------
(* LinearClockApproximation.process_tags: the tag rescaler.  The tags of the
   batches are drawn one by one, in non-decreasing time order, as the loop
   reaches them. *)

\* lines 101-105: a tag of another channel is put into the queue
Enqueue(c, t, ch) ==
    [c EXCEPT !.timestamp_storage[c.storage_end + 1] = t,
              !.channel_storage[c.storage_end + 1] = ch,
              !.storage_end = NextIndex(c.storage_end, StorageSize)]

\* rescale with the quotient truncated toward zero
rescale_Truncating(c, length) ==
    LET num == c.period * (c.timestamp_storage[c.storage_start + 1] - c._clock_timestamps[1])
    IN c.clock_time + (IF num >= 0 THEN num \div length ELSE -((-num) \div length))

\* lines 150-151: rescale(length), for the entry at storage_start
rescale(c, length) ==
    c.clock_time
       + (c.period * (c.timestamp_storage[c.storage_start + 1] - c._clock_timestamps[1]))
            \div length

\* line 89: the entry at storage_start is to be taken out of the queue
Drainable(c) ==
    /\ c.storage_start # c.storage_end
    /\ c.timestamp_storage[c.storage_start + 1] < c._clock_timestamps[2]

\* lines 89-97: the drain loop; out collects the rescaled tags written,
\* removed the entries taken out of the queue
RECURSIVE DrainQueue(_, _, _, _)
DrainQueue(c, out, removed, cycle_length) ==
    IF Drainable(c)
    THEN LET entry == [time |-> c.timestamp_storage[c.storage_start + 1],
                       channel |-> c.channel_storage[c.storage_start + 1]]
         IN DrainQueue([c EXCEPT !.storage_start = NextIndex(c.storage_start, StorageSize)],
                       IF cycle_length > 0
                       THEN Append(out, [time |-> rescale(c, cycle_length),
                                         channel |-> entry.channel])
                       ELSE out,
                       Append(removed, entry),
                       cycle_length)
    ELSE [clk |-> c, out |-> out, removed |-> removed]

\* lines 85-97: a tag of the clock channel: new_tag, then the drain.  The
\* type of the tag (0: a tick, 4: a missed-events marker) is not read.  When
\* new_tag raises, process_tags is left before the drain.
ClockTag ==
    /\ ClockCalls < MaxTicks
    /\ last_call.n < MaxRescaleTags
    /\ \E type \in {0, 4},
          tag \in IF tick_log = <<>>
                  THEN last_call.time .. last_call.time + MaxFirstTick
                  ELSE {t \in clk.last_tag + clk.period - MaxJitter
                                 .. clk.last_tag + clk.period + MaxJitter :
                           t >= last_call.time} :
          LET c1 == new_tag(clk, tag)
              cycle_length == c1._clock_timestamps[2] - c1._clock_timestamps[1]
              d  == IF c1.raised
                    THEN [clk |-> c1, out |-> <<>>, removed |-> <<>>]
                    ELSE DrainQueue(c1, <<>>, <<>>, cycle_length)
          IN /\ clk' = d.clk
             /\ emitted' = emitted \o d.out
             /\ tick_log' = Append(tick_log, tag)
             /\ last_call' = [op |-> "clock_tag", n |-> last_call.n + 1, arg |-> 0,
                              time |-> tag, channel |-> clk.channel, type |-> type,
                              removed |-> d.removed, out |-> d.out,
                              cycle_length |-> cycle_length]
    /\ UNCHANGED coreVars
    /\ UNCHANGED readerVars

\* lines 98-105: a tag of any other channel
OtherTag ==
    /\ last_call.n < MaxRescaleTags
    /\ \E t \in last_call.time .. last_call.time + MaxGap :
          /\ clk' = Enqueue(clk, t, RescaledChannel)
          /\ last_call' = [NoCall EXCEPT !.op = "other_tag", !.n = last_call.n + 1,
                                         !.time = t, !.channel = RescaledChannel]
    /\ UNCHANGED <<tick_log, emitted>>
    /\ UNCHANGED coreVars
    /\ UNCHANGED readerVars

RescaleNext == ClockTag \/ OtherTag \/ Skip

SpecRescale == ClockStart /\ [][RescaleNext]_vars

----------------------------------------------------------------------------
(* The drain loop of process_tags on its own: the state a clock tag leaves
   behind when new_tag returns, with one tag in the queue.  The fields of the
   fit are not read by the loop and are left as _reset sets them. *)

\* the queued time and the older anchor lie in 0..MaxStamp, the cycle length
\* in 0..MaxCycle
MaxStamp == 5
MaxCycle == 3

DrainStart ==
    /\ \E t \in 0..MaxStamp, a \in 0..MaxStamp, len \in 0..MaxCycle, ticks \in 1..2 :
          clk = [Enqueue(ClockInit(2, ClockPeriod), t, RescaledChannel)
                    EXCEPT !._clock_timestamps = <<a, a + len, a + len + ClockPeriod>>,
                           !.clock_time = (ticks - 1) * ClockPeriod,
                           !._reset_done = FALSE]
    /\ tick_log = <<>>
    /\ last_call = NoCall
    /\ emitted = <<>>
    /\ CoreInit(2, 1, 0)

\* lines 87-97: the cycle length and the drain
DrainStep ==
    /\ last_call.op = "none"
    /\ LET cycle_length == clk._clock_timestamps[2] - clk._clock_timestamps[1]
           d == DrainQueue(clk, <<>>, <<>>, cycle_length)
       IN /\ clk' = d.clk
          /\ emitted' = emitted \o d.out
          /\ last_call' = [NoCall EXCEPT !.op = "clock_tag", !.n = 1,
                                         !.channel = clk.channel,
                                         !.removed = d.removed, !.out = d.out,
                                         !.cycle_length = cycle_length]
    /\ UNCHANGED tick_log
    /\ UNCHANGED coreVars
    /\ UNCHANGED readerVars

SpecDrain == DrainStart /\ [][DrainStep]_vars

----------------------------------------------------------------------------
(* process_tags fed by an irregular clock: the tick intervals are drawn from
   a few values around the period, the other tags from a few gaps, so that a
   run reaches the sixth tick.  The tags are in non-decreasing time order. *)

\* the period, the tick intervals and the gaps of the irregular stream
IrregularPeriod == 6
IrregularSteps == {3, 5, 8}
IrregularGaps == {0, 2}
\* number of tags of a run
MaxIrregularTags == 7

IrregularStart ==
    /\ clk = ClockInit(3, IrregularPeriod)
    /\ tick_log = <<>>
    /\ last_call = NoCall
    /\ emitted = <<>>
    /\ CoreInit(2, 1, 0)

\* lines 85-97, as ClockTag, for a tick of the irregular clock
IrregularTick ==
    /\ last_call.n < MaxIrregularTags
    /\ \E tag \in IF tick_log = <<>>
                  THEN {last_call.time}
                  ELSE {t \in {clk.last_tag + s : s \in IrregularSteps} :
                           t >= last_call.time} :
          LET c1 == new_tag(clk, tag)
              cycle_length == c1._clock_timestamps[2] - c1._clock_timestamps[1]
              d  == IF c1.raised
                    THEN [clk |-> c1, out |-> <<>>, removed |-> <<>>]
                    ELSE DrainQueue(c1, <<>>, <<>>, cycle_length)
          IN /\ clk' = d.clk
             /\ emitted' = emitted \o d.out
             /\ tick_log' = Append(tick_log, tag)
             /\ last_call' = [op |-> "clock_tag", n |-> last_call.n + 1, arg |-> 0,
                              time |-> tag, channel |-> clk.channel, type |-> 0,
                              removed |-> d.removed, out |-> d.out,
                              cycle_length |-> cycle_length]
    /\ UNCHANGED coreVars
    /\ UNCHANGED readerVars

\* lines 98-105, as OtherTag
IrregularOther ==
    /\ last_call.n < MaxIrregularTags
    /\ \E g \in IrregularGaps :
          /\ clk' = Enqueue(clk, last_call.time + g, RescaledChannel)
          /\ last_call' = [NoCall EXCEPT !.op = "other_tag", !.n = last_call.n + 1,
                                         !.time = last_call.time + g,
                                         !.channel = RescaledChannel]
    /\ UNCHANGED <<tick_log, emitted>>
    /\ UNCHANGED coreVars
    /\ UNCHANGED readerVars

IrregularNext == IrregularTick \/ IrregularOther

SpecIrregular == IrregularStart /\ [][IrregularNext]_vars

----------------------------------------------------------------------------
(* Claims about the clock fitter *)

\* sum of f[j] over the indices lo..hi
RECURSIVE SumTo(_, _, _)
SumTo(f, lo, hi) == IF hi < lo THEN 0 ELSE f[hi] + SumTo(f, lo, hi - 1)

\* the window of tick_log a ring of N entries holds: the last min(k, N) ticks
WindowStart(k, N) == IF k > N THEN k - N + 1 ELSE 1

\* d_j = t_j - t_k + (k - j) * period, the deviation of tick j seen from tick k
Deviation(log, p) ==
    [j \in 1..Len(log) |-> log[j] - log[Len(log)] + (Len(log) - j) * p]

BatchYSum(log, N, p) ==
    SumTo(Deviation(log, p), WindowStart(Len(log), N), Len(log))

BatchXYSum(log, N, p) ==
    -SumTo([j \in 1..Len(log) |-> (Len(log) - j) * Deviation(log, p)[j]],
           WindowStart(Len(log), N), Len(log))

\* C1: after any sequence of new_tag calls since the last reset, y_sum and
\* xy_sum equal the sums recomputed from scratch over the ticks in the ring,
\* while the window is filling and after it is full.
C1_AggregatesMatchBatch ==
    /\ clk.y_sum = BatchYSum(tick_log, clk.max_length, clk.period)
    /\ clk.xy_sum = BatchXYSum(tick_log, clk.max_length, clk.period)

----------------------------------------------------------------------------
(* Claims about fast_process in reference mode *)

\* the slot (from 0) of the result ring the running or next close writes
WriteSlot == reference.data_index

\* a step of the close loop that handles channel ci
ClosesChannel == pc = "close" /\ ci <= NCh /\ ci' = ci + 1

\* the step that ends a cycle close
EndsClose == pc = "close" /\ pc' = "loop"

\* number of entries, and the k-th entry's slot (from 0), of a channel's
\* pending ring between its read and its write index
PendingCount(ch) ==
    (ch.buffer_write_index - ch.buffer_read_index + TagsToStore) % TagsToStore

PendingSlot(ch, k) == (ch.buffer_read_index + k - 1) % TagsToStore

\* what the newest drain removed from channel i's ring, and the difference it
\* computed for the k-th entry that was pending when it started
ConsumedCount(i) ==
    (channels[i].buffer_read_index - drain_log.channels[i].buffer_read_index
        + TagsToStore) % TagsToStore

DrainDiff(i, k) ==
    stored_tags[i][PendingSlot(drain_log.channels[i], k) + 1] - drain_log.last

DrainRan == drain_log.ran /\ ~fault

\* C2 as claimed: every cycle, the first one and n_average = 1 included,
\* closes after exactly n_average reference tags, and when every reference
\* interval of the cycle had a tag on every channel the row it writes is
\* non-NaN for every channel.
C2_EveryFedCycleIsNonNaN ==
    /\ pc # "close" => nrefs = reference.count * reference.n_average + reference.index
    /\ (pc = "close" /\ ci = NCh + 1 /\ fed.ok)
          => \A i \in 1..NCh : ~data[i][WriteSlot + 1].nan

\* C2 as amended: every cycle closes after exactly n_average reference tags
\* counted from index = 0 and count then grows by exactly 1; the row written
\* at the data_index held before the close is non-NaN for exactly the
\* channels whose histogram holds at least one sample at the close.
C2_CycleClosure ==
    /\ [](/\ pc # "close" => /\ reference.index < reference.n_average
                             /\ nrefs = reference.count * reference.n_average
                                           + reference.index
          /\ pc = "close" => nrefs = (reference.count + 1) * reference.n_average)
    /\ [][/\ ClosesChannel =>
                (data'[ci][WriteSlot + 1].nan <=> channels[ci].index = 0)
          /\ EndsClose =>
                /\ reference'.count = reference.count + 1
                /\ reference'.index = 0
                /\ \A i \in 1..NCh : data'[i][WriteSlot + 1] = data[i][WriteSlot + 1]
                /\ \A i \in 1..NCh : data[i][WriteSlot + 1].cycle = reference.count]_vars

\* a cycle has closed with a non-NaN row for every channel
C2_Witness ==
    /\ pc = "loop"
    /\ reference.count >= 1
    /\ \E j \in 1..MaxTimetags : \A i \in 1..NCh :
          /\ data[i][j].cycle = reference.count - 1
          /\ ~data[i][j].nan

\* C3: when a cycle closes and a channel has no sample, its mean and stddev
\* in the cycle's row are NaN and a message naming the channel is appended to
\* the messages of fast_process; a channel with samples gets its entries
\* computed from its histogram row, no other channel's entries are touched,
\* and the cycle closes: count and data_index advance.
C3_MissingChannelData ==
    [][/\ (ClosesChannel /\ channels[ci].index = 0) =>
              /\ data'[ci][WriteSlot + 1].nan
              /\ messages' = Append(messages, [text |-> "No events on channel",
                                               channel |-> SignalChannels[ci]])
       /\ (ClosesChannel /\ channels[ci].index > 0) =>
              /\ ~data'[ci][WriteSlot + 1].nan
              /\ data'[ci][WriteSlot + 1].n = channels[ci].index
              /\ data'[ci][WriteSlot + 1].off = channels[ci].offset
              /\ data'[ci][WriteSlot + 1].sum =
                    SumTo(histograms, (ci - 1) * HistWidth(reference) + 1,
                          (ci - 1) * HistWidth(reference)
                             + SliceLen(channels[ci].index, HistWidth(reference)))
              /\ messages' = messages
       /\ ClosesChannel =>
              \A i \in 1..NCh, j \in 1..MaxTimetags :
                  (i # ci \/ j # WriteSlot + 1) => data'[i][j] = data[i][j]
       /\ EndsClose =>
              /\ reference'.count = reference.count + 1
              /\ reference'.data_index = (reference.data_index + 1) % MaxTimetags]_vars

\* a closed cycle's row holds NaN for one channel, named in a message, and a
\* computed entry for another
C3_Witness ==
    \E j \in 1..MaxTimetags, i1 \in 1..NCh, i2 \in 1..NCh :
        /\ data[i1][j].nan
        /\ data[i1][j].cycle >= 0
        /\ reference.count > data[i1][j].cycle
        /\ ~data[i2][j].nan
        /\ data[i2][j].cycle = data[i1][j].cycle
        /\ \E m \in 1..Len(messages) : messages[m].channel = SignalChannels[i1]

\* C4: after a cycle closes with a channel's histogram empty the channel is
\* Unanchored: its offset is the sentinel -1.
C4_UnanchoredAfterMissingData ==
    [][(ClosesChannel /\ channels[ci].index = 0) => channels'[ci].offset = -1]_vars

\* C5 as claimed: a buffered entry whose diff is exactly -period/2 is removed
\* by the drain without adding a sample: the samples a drain adds for a
\* channel are the entries it removed with diff above -period/2.
C5_LowerBoundaryDiscarded ==
    DrainRan =>
        \A i \in 1..NCh :
            channels[i].index - drain_log.channels[i].index =
                Cardinality({k \in 1..ConsumedCount(i) :
                                /\ 2 * DrainDiff(i, k) >= -reference.period - 1
                                /\ 2 * DrainDiff(i, k) # -reference.period})

\* the samples the newest drain recorded for channel i, by the code's window
\* floor(-period/2) <= diff
RecordedEntries(i) ==
    {k \in 1..ConsumedCount(i) : 2 * DrainDiff(i, k) >= -reference.period - 1}

\* C5 as amended: a buffered entry whose diff is exactly -period/2 is
\* recorded: the drain removes it and adds it as a sample.  The entries a
\* drain removes without a sample are those with diff < floor(-period/2).
C5_LowerBoundaryRecorded ==
    DrainRan =>
        \A i \in 1..NCh :
            /\ channels[i].index - drain_log.channels[i].index
                  = Cardinality(RecordedEntries(i))
            /\ \A k \in RecordedEntries(i) :
                  LET col == drain_log.channels[i].index
                                + Cardinality({j \in RecordedEntries(i) : j < k})
                  IN col < HistWidth(reference) =>
                        histograms[(i - 1) * HistWidth(reference) + col + 1]
                            = DrainDiff(i, k)

\* a drain has handled an entry whose diff is exactly -period/2
C5_Witness ==
    /\ DrainRan
    /\ \E i \in 1..NCh : \E k \in 1..ConsumedCount(i) :
          2 * DrainDiff(i, k) = -reference.period

\* C6: a buffered entry with diff >= period/2 is not recorded and stops the
\* drain of its channel: the read index is left pointing at the first such
\* entry, it and all later entries stay buffered, the write index is
\* untouched and no sample is added for an entry that stays.
C6_UpperBoundaryStops ==
    DrainRan =>
        \A i \in 1..NCh :
            LET pre == drain_log.channels[i]
                total == PendingCount(pre)
                n == ConsumedCount(i)
            IN /\ channels[i].buffer_write_index = pre.buffer_write_index
               /\ n <= total
               /\ channels[i].index - pre.index <= n
               /\ \A k \in 1..total :
                     2 * DrainDiff(i, k) >= reference.period => k > n
               /\ \A k \in 1..total :
                     (/\ 2 * DrainDiff(i, k) >= reference.period
                      /\ \A j \in 1..(k - 1) : 2 * DrainDiff(i, j) + 2 <= reference.period)
                        => /\ n = k - 1
                           /\ channels[i].buffer_read_index = PendingSlot(pre, k)

\* a drain has stopped at an entry whose diff is exactly period/2
C6_Witness ==
    /\ DrainRan
    /\ \E i \in 1..NCh :
          /\ ConsumedCount(i) > 0
          /\ ConsumedCount(i) < PendingCount(drain_log.channels[i])
          /\ 2 * DrainDiff(i, ConsumedCount(i) + 1) = reference.period

\* C7: running the drain again against the same previous reference time,
\* with no tag pushed in between, changes no read or write index, no sample
\* count and no histogram entry.
C7_DrainIdempotent ==
    DrainRan =>
        Drain(channels, histograms, [reference EXCEPT !.last = drain_log.last],
              stored_tags)
            = [channels |-> channels, histograms |-> histograms, fault |-> FALSE]

\* a drain has recorded samples and left an entry buffered
C7_Witness ==
    /\ DrainRan
    /\ \E i \in 1..NCh : channels[i].index > drain_log.channels[i].index
    /\ \E i \in 1..NCh : PendingCount(channels[i]) >= 1

\* C8: a push never brings buffer_write_index onto buffer_read_index, which
\* would make the unprocessed entries of a full ring look like an empty ring.
C8_PushNeverWraps ==
    [][\A i \in 1..NCh :
          channels'[i].buffer_write_index # channels[i].buffer_write_index
             => channels'[i].buffer_write_index # channels'[i].buffer_read_index]_vars

\* C9: a channel's histogram write position never exceeds the histogram
\* capacity and no sample is written outside the channel's row.
C9_HistogramInRange ==
    /\ ~fault
    /\ \A i \in 1..NCh : channels[i].index <= HistWidth(reference)

----------------------------------------------------------------------------
(* Claims about the snapshot *)

\* C10: in a snapshot returned by getDataObject no row mixes cycles: the mean
\* / stddev cell of every channel and the referenceTime of a row were written
\* by the same cycle close, and the snapshot's count and start index are
\* those of the state its rows were copied from: the rows are in cycle order
\* and the last row is the one of cycle count - 1.
C10_NoHalfWrittenRow ==
    current_data.valid =>
        /\ \A j \in 1..Len(current_data.reftime) : \A i \in 1..NCh :
              current_data.data[i][j].cycle = current_data.reftime_cycle[j]
        /\ \A j \in 1..Len(current_data.reftime) :
              \/ current_data.reftime_cycle[j] = -1
              \/ current_data.reftime_cycle[j]
                    = current_data.count - 1 - (Len(current_data.reftime) - j)
        /\ current_data.count > 0 =>
              current_data.reftime_cycle[Len(current_data.reftime)]
                  = current_data.count - 1

\* the display thread holds a snapshot with a completed cycle and waits for
\* the mutex while the writer is in the middle of a row
C10_Witness ==
    /\ current_data.valid
    /\ current_data.count >= 1
    /\ rpc = "lock"
    /\ pc = "close"
    /\ ci > 1

\* row j of the snapshot was written by a cycle close
RowWritten(pd, j) == pd.reftime_cycle[j] >= 0

----------------------------------------------------------------------------
(* Claims about the anchor offset *)

\* this step pushes a signal tag into the pending ring of channel i
Pushes(i) == channels'[i].buffer_write_index # channels[i].buffer_write_index

\* channel i had a tag pushed since the newest reference tag
PushedSinceReference(i) == reference.last > 0 /\ fed.seen[i]

\* C23: anchor acquisition happens once: the first tag on an Unanchored
\* channel sets anchorOffset from t - previousReferenceTime (minus one period
\* when that exceeds period/2); while the channel is Anchored no later signal
\* tag changes anchorOffset, whatever value the offset took; every signal tag
\* is pushed as t - anchorOffset.
C23_AnchorAcquiredOnce ==
    [][\A i \in 1..NCh :
          Pushes(i) =>
             /\ stored_tags'[i][channels[i].buffer_write_index + 1]
                   = now' - channels'[i].offset
             /\ (channels[i].offset = -1 /\ ~PushedSinceReference(i))
                   => channels'[i].offset
                         = IF now' - reference.last > reference.period \div 2
                           THEN now' - reference.last - reference.period
                           ELSE now' - reference.last
             /\ PushedSinceReference(i) => channels'[i].offset = channels[i].offset]_vars

----------------------------------------------------------------------------
(* Claims about the storage rows *)

\* C24: the reported mean is the mean raw offset: at a cycle close, for each
\* channel with k > 0 samples, k times the written mean (sum / k + off)
\* equals the sum over the recorded tags of (raw tag time - the previous
\* reference time it was matched against), also when the channel's
\* anchorOffset changed during the cycle.
C24_MeanIsRawOffset ==
    [][(ClosesChannel /\ channels[ci].index > 0) =>
          LET cell == data'[ci][WriteSlot + 1]
          IN cell.sum + cell.n * cell.off = raw_sum[ci]]_vars

\* the data rows of the file, without the "--- Missing Tag ---" rows
StoredRows == SelectSeq(rows, LAMBDA r : r.index # -1)

\* C12: storage rows are written once per completed cycle, in cycle order:
\* the data rows carry the indices 0, 1, 2, ... and the k-th of them holds
\* the reference time of cycle k, and after each process() call
\* __storage_count equals reference.count.
C12_RowsOncePerCycle ==
    /\ pc = "idle" => storage_count = reference.count
    /\ \A k \in 1..Len(StoredRows) :
          /\ StoredRows[k].index = k - 1
          /\ StoredRows[k].cycle = k - 1

----------------------------------------------------------------------------
(* Claims about the construction *)

\* the arguments the specification calls a configuration error
InvalidConfiguration(ref) == ref.channel = 0 \/ ref.period <= 0 \/ ref.n_average <= 0

\* C18: configuration errors are fatal at construction: constructing
\* PpsTracking with no reference channel (None or 0), with period <= 0 or
\* with n_average <= 0 raises an error and no measurement is started.
C18_ConfigurationErrorsFatal ==
    (pc # "new" /\ InvalidConfiguration(reference)) => (pc = "failed" /\ raised # "")

----------------------------------------------------------------------------
(* Claims about skip and process_tags *)

\* the step is a call of skip
SkipCall == last_call'.op = "skip" /\ last_call'.n = last_call.n + 1

\* the regression state of an empty window
EmptyWindow(c) ==
    /\ c.y_sum = 0
    /\ c.xy_sum = 0
    /\ c.position = 0
    /\ c.full = FALSE
    /\ c.last_tag = 0
    /\ c.slope = c.period
    /\ c.offset = 0

\* C13: skip(k) increases clock_time by exactly k * period and leaves the
\* regression state equal to the empty-window state, whatever ticks were
\* processed before; a second skip before any new tick only advances
\* clock_time again.
C13_SkipResets ==
    [][SkipCall =>
          /\ clk'.clock_time = clk.clock_time + last_call'.arg * clk.period
          /\ EmptyWindow(clk')
          /\ last_call.op = "skip" =>
                clk' = [clk EXCEPT !.clock_time = @ + last_call'.arg * clk.period]]_vars

\* a skip has reset a window that held ticks
C13_Witness ==
    /\ last_call.op = "skip"
    /\ EmptyWindow(clk)
    /\ \E i \in 1..clk.max_length : clk.tags[i] > 0

\* C17: new_tag completes for every tick sequence and produces a fitted
\* anchor: the divisor slope is not 0 when offset // slope is evaluated.
C17_NewTagCompletes ==
    last_call.op = "new_tag" => (clk.slope # 0 /\ ~clk.raised)

\* the least-squares line over the points (j, log[j]), j in lo..hi, with at
\* least two points, evaluated at j = hi: the value is num / den, den > 0
BatchFit(log, lo, hi) ==
    LET n  == hi - lo + 1
        X  == SumTo([j \in 1..Len(log) |-> j], lo, hi)
        Y  == SumTo(log, lo, hi)
        XX == SumTo([j \in 1..Len(log) |-> j * j], lo, hi)
        XY == SumTo([j \in 1..Len(log) |-> j * log[j]], lo, hi)
        D  == n * XX - X * X
        B  == n * XY - X * Y
    IN [num |-> Y * D + B * (n * hi - X), den |-> n * D]

Abs(x) == IF x < 0 THEN -x ELSE x

\* the newest fitted anchor differs from the batch fit by at most tol
AnchorNearBatchFit(tol) ==
    LET k  == Len(tick_log)
        lo == WindowStart(k, clk.max_length)
        a  == clk._clock_timestamps[3]
    IN IF k = lo
       THEN Abs(a - tick_log[k]) <= tol
       ELSE LET f == BatchFit(tick_log, lo, k)
            IN Abs(a * f.den - f.num) <= tol * f.den

\* C19: the fitted anchor new_tag produces at tick i equals, within a
\* tolerance of one time unit, the value at the newest index of the
\* least-squares line fitted from scratch over the ticks of the window.
C19_FitMatchesBatch ==
    last_call.op = "new_tag" => (~clk.raised /\ AnchorNearBatchFit(1))

\* the step handles a tag of the clock channel in process_tags
ClockTagStep == last_call'.op = "clock_tag" /\ last_call'.n = last_call.n + 1

\* the entries of the queue, oldest first
RECURSIVE QueueFrom(_, _)
QueueFrom(c, i) ==
    IF i = c.storage_end THEN <<>>
    ELSE <<c.timestamp_storage[i + 1]>> \o QueueFrom(c, NextIndex(i, StorageSize))

Queue(c) == QueueFrom(c, c.storage_start)

\* C14: a clock-channel tag that is a missed-events marker is not folded
\* into the fit as a tick: the whole queue is drained and skip is applied.
C14_MarkerDrainsAndSkips ==
    [][(ClockTagStep /\ last_call'.type # 0) =>
          /\ clk'.storage_start = clk'.storage_end
          /\ Len(tick_log') <= Len(tick_log)
          /\ EmptyWindow(clk')]_vars

\* C15: when the cycle length between the two anchors is <= 0, every tag the
\* drain takes out of the queue is written with its original time and its
\* channel: as many tags are written as are taken out.
C15_DegeneratePassThrough ==
    (last_call.op = "clock_tag" /\ last_call.cycle_length <= 0)
        => last_call.out = last_call.removed

\* C16: putting a tag into the queue never brings storage_end onto
\* storage_start, which makes a full queue look empty.
C16_QueueNeverWraps ==
    [][(last_call'.op = "other_tag" /\ last_call'.n = last_call.n + 1)
          => clk'.storage_end # clk'.storage_start]_vars

\* C20: after process_tags has handled a clock tick no queued tag with a raw
\* time earlier than the newest fitted anchor remains in the queue, and the
\* cycle length used is (newest anchor - previous anchor).
C20_DrainReachesNewestAnchor ==
    (last_call.op = "clock_tag" /\ ~clk.raised) =>
        /\ \A k \in 1..Len(Queue(clk)) : Queue(clk)[k] >= clk._clock_timestamps[3]
        /\ last_call.cycle_length = clk._clock_timestamps[3] - clk._clock_timestamps[2]

----------------------------------------------------------------------------
(* Claims about the rescaled time *)

\* the quotient of a by b > 0 truncated toward zero
TruncDiv(a, b) == IF a >= 0 THEN a \div b ELSE -((-a) \div b)

\* period * (t - a) for the k-th tag the newest clock tag took out of the
\* queue, a being the older interpolation anchor
RescaleNumerator(k) ==
    clk.period * (last_call.removed[k].time - clk._clock_timestamps[1])

\* the newest call handled a clock tag with a positive cycle length
Rescaled == last_call.op = "clock_tag" /\ ~clk.raised /\ last_call.cycle_length > 0

\* C21 as claimed: each drained tag is emitted with time = nominalClockTime
\* + q, q being period * (t - a) / cycleLength truncated toward zero, for
\* every sign of (t - a).
C21_RescaleTruncates ==
    Rescaled =>
        /\ Len(last_call.out) = Len(last_call.removed)
        /\ \A k \in 1..Len(last_call.out) :
              last_call.out[k].time =
                  clk.clock_time + TruncDiv(RescaleNumerator(k), last_call.cycle_length)

\* C21 as amended: each drained tag is emitted with time = nominalClockTime
\* + q, q being the floor of period * (t - a) / cycleLength: for t < a a
\* quotient that is not whole is rounded away from zero.
C21_RescaleFloors ==
    Rescaled =>
        /\ Len(last_call.out) = Len(last_call.removed)
        /\ \A k \in 1..Len(last_call.out) :
              /\ last_call.out[k].time =
                    clk.clock_time + RescaleNumerator(k) \div last_call.cycle_length
              /\ last_call.out[k].channel = last_call.removed[k].channel

\* a tag earlier than the older anchor was rescaled with a quotient that is
\* not whole
C21_Witness ==
    /\ Rescaled
    /\ \E k \in 1..Len(last_call.out) :
          /\ RescaleNumerator(k) < 0
          /\ RescaleNumerator(k) % last_call.cycle_length # 0

----------------------------------------------------------------------------
(* Claims about the first ticks *)

\* the newest call was new_tag on an empty window: the first tick after the
\* construction or after a reset
FirstTick == last_call.op = "new_tag" /\ clk.position = 1 /\ ~clk.full /\ ~clk.raised

\* C22: for a tick processed with fewer than 2 historical ticks in the
\* window (the first tick after construction or after a reset) the fitted
\* anchor pushed onto the anchor history equals the raw tick time exactly.
C22_FirstAnchorIsRawTick ==
    FirstTick => clk._clock_timestamps[3] = clk.last_tag

----------------------------------------------------------------------------
(* Claims about the capacity of the Result Buffer *)

\* C25: under any interleaving of process() batches with
\* setTimetagsMaximum(v), for any integer v, the ring indices stay in range:
\* 0 <= buffer_read_index, buffer_write_index < the pending capacity of every
\* channel and 0 <= data_index < the current capacity of the Result Buffer,
\* so that a cycle close writes inside the Result Buffer.
C25_RingIndicesInRange ==
    /\ \A i \in 1..NCh :
          /\ channels[i].buffer_read_index \in 0..(TagsToStore - 1)
          /\ channels[i].buffer_write_index \in 0..(TagsToStore - 1)
    /\ reference.data_index >= 0
    /\ reference.data_index < Len(data_reftime)
    /\ (pc = "close" => SlotInside)

\* a step of setTimetagsMaximum: the only step that takes an input while
\* process() is not running
ResizeStep == pc = "idle" /\ budget' = budget - 1

\* the newest n entries of a linearised ring, oldest first
Newest(lin, n) == SubSeq(lin, Len(lin) - n + 1, Len(lin))

\* whether the linearised ring after is the linearised ring before cut to
\* its newest entries, or the ring before behind padding on the oldest side
KeepsNewest(before, after, pad) ==
    IF Len(after) <= Len(before)
    THEN after = Newest(before, Len(after))
    ELSE /\ Newest(after, Len(before)) = before
         /\ \A k \in 1..(Len(after) - Len(before)) : after[k] = pad

\* C26: after setTimetagsMaximum(v) with v > 0 on a ring of capacity c the
\* ring has capacity v and holds the most recent min(v, c) rows: the snapshot
\* linearised from the new data_index lists them oldest to newest, no newer
\* row is dropped while an older one is kept, growing only adds NaN padding
\* on the oldest side; for every position of data_index.
C26_ResizeKeepsNewestRows ==
    [][(ResizeStep /\ Len(data_reftime') > 0) =>
          /\ KeepsNewest(Linearise(reftime_cycle, reference.data_index),
                         Linearise(reftime_cycle', reference'.data_index), 0 - 1)
          /\ KeepsNewest(Linearise(data_reftime, reference.data_index),
                         Linearise(data_reftime', reference'.data_index), 0)
          /\ \A i \in 1..NCh :
                KeepsNewest(Linearise(data[i], reference.data_index),
                            Linearise(data'[i], reference'.data_index), NaNCell(0 - 1))]_vars

\* C28: getDataObject returns current data: whenever no writer is active, the
\* PpsData it returns equals the linearisation of the Result Buffer as it is
\* at the time of the call (same capacity, same rows), also when
\* setTimetagsMaximum changed the buffer since the previous call and no new
\* cycle completed in between.  A call made in a state whose cached snapshot
\* passes the test of line 115 returns that snapshot as it is; a call that
\* takes the mutex returns the copy it makes.
C28_ReturnsCurrentData ==
    (pc = "idle" /\ rpc = "idle" /\ ~SnapshotStale(current_data, reference))
        => current_data = PpsData(data, data_reftime, reftime_cycle, reference)

----------------------------------------------------------------------------
(* Claims about the life of a buffered tag *)

\* the entries the newest drain removed from channel i's ring and recorded
RecordedByDrain(i) ==
    {k \in 1..ConsumedCount(i) : Classify(DrainDiff(i, k), reference.period) = "record"}

\* after a drain: an entry left the ring exactly when it was recorded or
\* discarded, and every recorded entry added one sample
DrainConsumesOnce ==
    DrainRan =>
        \A i \in 1..NCh :
            LET pre == drain_log.channels[i]
                n == ConsumedCount(i)
            IN /\ n <= PendingCount(pre)
               /\ \A k \in 1..n : Classify(DrainDiff(i, k), reference.period) # "stop"
               /\ n < PendingCount(pre)
                     => Classify(DrainDiff(i, n + 1), reference.period) = "stop"
               /\ channels[i].index = pre.index + Cardinality(RecordedByDrain(i))

\* at a cycle close: the statistics of a channel are taken over all the
\* samples recorded for it in the cycle, and the close leaves no sample and
\* no sample count behind for the next cycle
CloseIncludesOnce ==
    /\ ClosesChannel =>
          /\ channels'[ci].index = 0
          /\ channels[ci].index > 0 =>
                LET cell == data'[ci][WriteSlot + 1]
                IN cell.n = channels[ci].index /\ cell.m = cell.n
    /\ EndsClose =>
          /\ \A i \in 1..NCh : channels'[i].index = 0
          /\ \A k \in DOMAIN histograms' : histograms'[k] = 0

\* C29: each buffered signal tag is consumed exactly once: in reference mode,
\* without overflow of the pending buffer, a pushed tag is removed by the
\* drain exactly when it is recorded or discarded, contributes at most one
\* histogram sample, and that sample is included in the statistics of exactly
\* one cycle; all sample counts are 0 right after every cycle close.
C29_TagConsumedOnce ==
    [][DrainConsumesOnce' /\ CloseIncludesOnce]_vars

----------------------------------------------------------------------------
(* Claims about the tags fast_process ignores *)

\* the newest step handled a normal tag that is not a reference tag and that
\* came before the first reference tag or on a channel that is not configured
IgnoredTag ==
    /\ pc = "loop"
    /\ drain_log'.tag # 0
    /\ drain_log'.tag # reference.channel
    /\ \/ nrefs = 0
       \/ \A i \in 1..NCh : channels[i].channel # drain_log'.tag

\* C30: in reference mode a normal tag that arrives before the first
\* reference tag has been seen, or on a channel that is neither the reference
\* channel nor a configured signal channel, leaves the reference state, every
\* channel's state, the pending buffers, the histograms and the Result Buffer
\* unchanged and produces no message.
C30_IgnoredTagChangesNothing ==
    [][IgnoredTag => UNCHANGED <<reference, channels, stored_tags, histograms, data,
                                 data_reftime, messages>>]_vars

\* a reference tag was seen, a tag is pending, and the newest tag came on a
\* channel that is not configured
C30_Witness ==
    /\ drain_log.tag = OtherChannel
    /\ reference.last > 0
    /\ \E i \in 1..NCh : PendingCount(channels[i]) > 0

----------------------------------------------------------------------------
(* Claims about the message log *)

\* C27: every message is delivered to the GUI exactly once and in order:
\* under any interleaving of the DisplayUpdater loop with the thread that
\* appends messages, what has been passed to add_message is at every moment
\* the appended messages up to some point, each once, none skipped and none
\* repeated.
C27_DeliveredOnceInOrder ==
    /\ Len(gui.delivered) <= Len(gui.messages)
    /\ gui.delivered = SubSeq(gui.messages, 1, Len(gui.delivered))

----------------------------------------------------------------------------
(* Claims about the order of the rescaled tags *)

\* C31: with the input tags in non-decreasing time order, the rescaled tags
\* emitted by process_tags, taken over successive clock ticks and successive
\* calls, are in non-decreasing time order, and the tags a drain writes keep
\* the FIFO order and the channel ids of the queued tags it took out.
C31_RescaledOrdered ==
    /\ \A j \in 1..(Len(emitted) - 1) : emitted[j].time <= emitted[j + 1].time
    /\ (last_call.op = "clock_tag" /\ last_call.cycle_length > 0)
          => /\ Len(last_call.out) = Len(last_call.removed)
             /\ \A j \in 1..Len(last_call.out) :
                   last_call.out[j].channel = last_call.removed[j].channel

----------------------------------------------------------------------------
(* Claims about the nominal clock time *)

\* C32: clock_time counts ticks: it is -period after __init__, every tick
\* passed to new_tag adds one period (also when new_tag raises at its last
\* line), skip(k) adds k periods, and nothing else changes it: not the
\* enqueue of another tag, not the drain, not a reset.  Hence in every
\* reachable state clock_time = (ticks passed to new_tag + ticks passed to
\* skip - 1) * period.
C32_ClockTimeCountsTicks ==
    [][/\ last_call.n = 0 => clk.clock_time = -clk.period
       /\ clk'.period = clk.period
       /\ clk'.clock_time =
             clk.clock_time
               + (IF last_call'.op = "clock_tag" THEN clk.period
                  ELSE IF last_call'.op = "skip" THEN last_call'.arg * clk.period
                  ELSE 0)]_vars

\* ticks were counted, a rescaled tag was emitted, and a skip of two ticks
\* then reset the fit
C32_Witness ==
    /\ last_call.op = "skip"
    /\ last_call.arg = 2
    /\ clk._reset_done
    /\ Len(emitted) > 0
    /\ clk.clock_time >= 3 * clk.period

----------------------------------------------------------------------------
(* Claims about the time anchors of the storage *)

\* C33: storing a row never fails for lack of time anchors: whenever
\* _store_timetags writes the row of a completed cycle, __utc_timestamps
\* holds at least two entries with distinct device times, so the UTC
\* interpolation is defined, also when a cycle completes during the very
\* first process() batch; no process() call is ended by the storage step.
C33_StorageHasAnchors ==
    /\ raised # "IndexError"
    /\ raised # "ZeroDivisionError"

----------------------------------------------------------------------------
(* Claims about the mode without a reference channel *)

\* a tag was processed in the mode without a reference channel, after
\* reference["last"] was initialised
NoRefStep ==
    /\ NoRefTag
    /\ reference.last # 0
    /\ pc' # "hang"

\* the number of whole periods added to reference["last"] by the step
PeriodsAdded ==
    IF reference.period = 0 THEN 0
    ELSE (reference'.last - reference.last) \div reference.period

\* C34: in the mode without a reference channel, with tags in non-decreasing
\* time order, after a tag at time t is processed once reference.last has
\* been initialised, t - period <= reference.last <= t, and reference.index
\* was increased by exactly the number of whole periods added to
\* reference.last (a cycle that closes sets the index back to 0 after it
\* reached n_average).
C34_VirtualReferenceFollows ==
    [][NoRefStep =>
          /\ reference'.last = reference.last + PeriodsAdded * reference.period
          /\ PeriodsAdded >= 0
          /\ pc' = "loop" =>
                /\ now' - reference.period <= reference'.last
                /\ reference'.last <= now'
          /\ IF reference'.count = reference.count
             THEN reference'.index = reference.index + PeriodsAdded
             ELSE /\ reference.index + PeriodsAdded >= reference.n_average
                  /\ reference'.index = 0]_vars

\* a cycle was closed and the virtual reference lies strictly inside the
\* last period before the newest tag
C34_Witness ==
    /\ reference.channel = 0
    /\ pc = "loop"
    /\ reference.period > 0
    /\ reference.n_average = 1
    /\ reference.count > 0
    /\ reference.last > now - reference.period
    /\ reference.last < now

\* the step closes a cycle of the mode without a reference channel while some
\* channel has recorded no interval sample
NoRefCloseEmpty ==
    /\ NoRefStep
    /\ reference.index + PeriodsAdded >= reference.n_average
    /\ \E i \in 1..Len(channels) : channels[i].index = 0

\* C35: in the mode without a reference channel, when reference.index
\* reaches n_average while some channel has recorded zero interval samples,
\* the cycle close completes (no division by a zero sample count ends
\* processing), that channel's cell of the row is NaN, and count and
\* data_index advance as for any other cycle.
C35_EmptyChannelCloses ==
    [][NoRefCloseEmpty =>
          /\ raised' = ""
          /\ pc' = "loop"
          /\ reference'.count = reference.count + 1
          /\ reference'.data_index = NextIndex(reference.data_index, Len(data_reftime))
          /\ \A i \in 1..Len(channels) :
                channels[i].index = 0 => data'[i][reference.data_index + 1].nan]_vars

----------------------------------------------------------------------------
(* Claims about the legacy tracker *)

\* C36: in the legacy tracker, after every reference tag the number of
\* retained tag groups (_timetags) is at most the maximum set by
\* setTimetagsMaximum, for every configured maximum >= 0 (0 included), so
\* getData never returns more columns than that maximum.
C36_LegacyBufferBounded ==
    [][legacy'._timetag_index = legacy._timetag_index + 1 =>
          /\ Len(legacy'._timetags) <= legacy'._max_timetags
          /\ Len(Legacy_getData(legacy')) <= legacy'._max_timetags]_vars

====
